---- MODULE Spec2Model ----
(***************************************************************************)
(* Change detection of static.py: the fingerprint store (history.json),    *)
(* the dependency declarations (meta.json "deps"), get_changes, and the    *)
(* reconciliation done by generate and diff.                               *)
(*                                                                         *)
(* Paths are modelled as records [sep, folder, rel]: the first path        *)
(* component, the rest, and the separator the string was written with.     *)
(* glob and os.path are modelled as on Windows, the platform the program   *)
(* is written for (it keys every path with a backslash): glob returns      *)
(* backslash paths and os.path.isfile accepts either separator.            *)
(* Directories, dot files and files whose extension does not match their   *)
(* folder's filter are outside the file universe, which holds one template *)
(* and one post; the assets and data folders stay empty.  The source tree  *)
(* changes only between two commands (one process, one pass).              *)
(***************************************************************************)
EXTENDS Integers, Sequences, FiniteSets, TLC

\* ---------------------------------------------------------------- bounds
\* Modification times range over 1..MaxMTime.
MaxMTime == 2

\* File contents, and their digests.
Contents == {"c1", "c2"}

md5(c) == CASE c = "c1" -> "d1" [] c = "c2" -> "d2"

Hashes == {md5(c) : c \in Contents}

\* ---------------------------------------------------------------- universe
\* The tracked folders, in the order get_changes scans them.
ScanOrder == <<"templates", "posts", "assets", "data">>

Folders == {ScanOrder[i] : i \in 1..Len(ScanOrder)}

\* The extension filter get_changes passes for each folder.
FolderExt(name) ==
    CASE name = "templates" -> ".html"
      [] name = "posts" -> ".md"
      [] name = "assets" -> ""
      [] name = "data" -> ".json"

\* The files of the universe: a template and a post.
TemplateFile == [folder |-> "templates", rel |-> "base.html"]
PostFile == [folder |-> "posts", rel |-> "a.md"]

Files == {TemplateFile, PostFile}

ExtOf(rel) ==
    CASE rel = "base.html" -> ".html"
      [] rel = "a.md" -> ".md"

RelsOf(name) == {f.rel : f \in {g \in Files : g.folder = name}}

\* A path string, as glob returns it (backslash) or as meta.json may write it.
WinPath(f) == [sep |-> "\\", folder |-> f.folder, rel |-> f.rel]
FwdPath(f) == [sep |-> "/", folder |-> f.folder, rel |-> f.rel]
FileOf(path) == [folder |-> path.folder, rel |-> path.rel]

\* The empty dict {}: the falsy FileInfo.
EmptyDict == [mod_date |-> 0, hash |-> "none"]

Fingerprints == [mod_date : 1..MaxMTime, hash : Hashes]

NoFile == [exists |-> FALSE, mod_date |-> 0, content |-> "none"]

FileStates == {NoFile} \cup [exists : {TRUE}, mod_date : 1..MaxMTime, content : Contents]

\* A section of history.json: relative path -> fingerprint.
Sections(name) == UNION {[K -> Fingerprints] : K \in SUBSET RelsOf(name)}

Stores == {h \in [Folders -> UNION {Sections(n) : n \in Folders}] :
             \A n \in Folders : h[n] \in Sections(n)}

NoSection == [x \in {} |-> EmptyDict]

\* history.json as create writes it.
EmptyHistory == [n \in Folders |-> NoSection]

\* ---------------------------------------------------------------- meta.json
PostsPattern == [name |-> "posts", ext |-> ".md"]
AssetsPattern == [name |-> "assets", ext |-> ""]

\* meta.json as create writes it: no "deps" key.
CreatedMeta == [has_deps |-> FALSE, deps |-> << >>]

NoDeps == [has_deps |-> TRUE, deps |-> << >>]

\* posts depend on the template.
OneDep ==
    [has_deps |-> TRUE,
     deps |-> << [pattern |-> PostsPattern, prereq |-> <<FwdPath(TemplateFile)>>] >>]

\* posts depend on the template; assets depend on the template and the post.
ChainDeps ==
    [has_deps |-> TRUE,
     deps |-> << [pattern |-> PostsPattern, prereq |-> <<FwdPath(TemplateFile)>>],
                 [pattern |-> AssetsPattern,
                  prereq |-> <<WinPath(TemplateFile), WinPath(PostFile)>>] >>]

\* The same two dependencies on the post and the template, listed the other way round.
ChainDepsReversed ==
    [has_deps |-> TRUE,
     deps |-> << [pattern |-> AssetsPattern, prereq |-> <<WinPath(PostFile)>>],
                 [pattern |-> PostsPattern, prereq |-> <<WinPath(TemplateFile)>>] >>]

MetaChoices == {CreatedMeta, NoDeps, OneDep, ChainDeps, ChainDepsReversed}

\* ---------------------------------------------------------------- state
VARIABLES
    fs,        \* the source tree: file -> state
    disk,      \* history.json
    meta,      \* meta.json
    cmd,       \* the command running: "none", "generate", "generate_full", "diff"
    pc,        \* "idle", "reconcile", "done", "nochanges", "failed"
    history,   \* the history dict in memory
    changes,   \* the result of get_changes
    events     \* store writes and handler calls of the run, in order

core_vars == <<fs, disk, meta, cmd, pc, history, changes, events>>

\* The development server (run): the slot of the event handler, the watcher
\* thread in on_modified and the server thread in do_POST.
VARIABLES
    modified,    \* event_handler.modified
    w_pc,        \* the watcher: "idle", "recorded" (after line 530), "split" (after 531)
    w_split,     \* the watcher's locals modified_no_ext, ext
    p_pc,        \* the server: "idle", "responded" (after 513), "checked" (after 514)
    response,    \* the body of the last answer to POST /refresh
    n_events,    \* how many events the watcher has been given
    returned,    \* the events some poll has returned (by number)
    erased,      \* the events line 515 has erased from the slot (by number)
    cleared_at   \* the number of events recorded when line 515 last cleared the slot

watch_vars == <<modified, w_pc, w_split, p_pc, response, n_events, returned, erased,
                cleared_at>>

\* create: the folders of the working directory and the position in create.
VARIABLES
    dirs,         \* the folders that exist
    dirs_before,  \* the folders that existed when create started
    c_pc,         \* "idle", "mkdir", "undo", "exited"
    c_i,          \* the index of folder in the loop over FOLDERS.values()
    c_j,          \* the index of f in the loop that undoes
    written,      \* the files create has written
    exit_code     \* the exit status of the process, -1 while it runs

create_vars == <<dirs, dirs_before, c_pc, c_i, c_j, written, exit_code>>

vars == <<core_vars, watch_vars, create_vars>>

\* ---------------------------------------------------------------- helpers
isfile(path, fsys) == FileOf(path) \in Files /\ fsys[FileOf(path)].exists

getmtime(path, fsys) == fsys[FileOf(path)].mod_date

\* glob.iglob(f"{name}/**/*{ext}", recursive=True)
glob(name, ext, fsys) ==
    {WinPath(f) : f \in {g \in Files : /\ fsys[g].exists
                                       /\ g.folder = name
                                       /\ (ext = "" \/ ExtOf(g.rel) = ext)}}

path_toss(path) == <<path.folder, path.rel>>

\* p.replace('/', '\\')
replace_slash(p) == [p EXCEPT !.sep = "\\"]

\* ---------------------------------------------------------------- build_dep_tree
get_files(pattern, fsys) == glob(pattern.name, pattern.ext, fsys)

\* dependent[p] = get_files(pattern), or dependent[p].update(get_files(pattern));
\* the dict keeps its keys in insertion order, so it is a sequence of entries.
add_dependents(dependent, p, files) ==
    IF \E k \in 1..Len(dependent) : dependent[k].prereq = p
    THEN [k \in 1..Len(dependent) |->
            IF dependent[k].prereq = p
            THEN [dependent[k] EXCEPT !.dependents = @ \cup files]
            ELSE dependent[k]]
    ELSE Append(dependent, [prereq |-> p, dependents |-> files])

RECURSIVE dep_tree_from(_, _, _, _, _)
dep_tree_from(deps, i, j, dependent, fsys) ==
    IF i > Len(deps) THEN dependent
    ELSE IF j > Len(deps[i].prereq) THEN dep_tree_from(deps, i + 1, 1, dependent, fsys)
    ELSE dep_tree_from(deps, i, j + 1,
                       add_dependents(dependent, replace_slash(deps[i].prereq[j]),
                                      get_files(deps[i].pattern, fsys)),
                       fsys)

\* Defined when meta has a "deps" key; meta["deps"] raises KeyError otherwise.
build_dep_tree(m, fsys) == dep_tree_from(m.deps, 1, 1, << >>, fsys)

\* ---------------------------------------------------------------- get_changes
\* _get_changes without the comparison of the hashes.
_get_changes_mtime_only(path, file_past, fsys) ==
    IF ~isfile(path, fsys) THEN EmptyDict
    ELSE IF file_past = EmptyDict \/ file_past.mod_date < getmtime(path, fsys)
    THEN [mod_date |-> getmtime(path, fsys), hash |-> md5(fsys[FileOf(path)].content)]
    ELSE EmptyDict

\* _get_changes without the comparison of the modification times.
_get_changes_hash_only(path, file_past, fsys) ==
    IF ~isfile(path, fsys) THEN EmptyDict
    ELSE IF file_past = EmptyDict \/ file_past.hash # md5(fsys[FileOf(path)].content)
    THEN [mod_date |-> getmtime(path, fsys), hash |-> md5(fsys[FileOf(path)].content)]
    ELSE EmptyDict

_get_changes(path, file_past, fsys) ==
    IF ~isfile(path, fsys) THEN EmptyDict
    ELSE LET curr_mod_date == getmtime(path, fsys)
             curr_hash == md5(fsys[FileOf(path)].content)
         IN IF /\ (file_past = EmptyDict \/ file_past.mod_date < curr_mod_date)
               /\ (file_past = EmptyDict \/ file_past.hash # curr_hash)
            THEN [mod_date |-> curr_mod_date, hash |-> curr_hash]
            ELSE EmptyDict

NoCascade ==
    [raised |-> FALSE, recompile |-> {}, prereq_changed |-> {},
     prereq_info |-> [x \in {} |-> EmptyDict]]

\* The loop over dep_tree.items(): which prerequisites changed, and which files
\* they force. history[folder][relpath] raises KeyError for a prerequisite that
\* has no entry and is not in recompile.
RECURSIVE prereq_loop(_, _, _, _, _)
prereq_loop(dep_tree, i, acc, hist, fsys) ==
    IF i > Len(dep_tree) \/ acc.raised THEN acc
    ELSE LET prereq == dep_tree[i].prereq
             dependents == dep_tree[i].dependents
             folder == path_toss(prereq)[1]
             relpath == path_toss(prereq)[2]
         IN IF prereq \notin acc.recompile /\ relpath \notin DOMAIN hist[folder]
            THEN [acc EXCEPT !.raised = TRUE]
            ELSE LET prereq_history == IF prereq \in acc.recompile THEN EmptyDict
                                       ELSE hist[folder][relpath]
                     prereq_changes == _get_changes(prereq, prereq_history, fsys)
                 IN IF prereq_changes # EmptyDict
                    THEN prereq_loop(dep_tree, i + 1,
                            [acc EXCEPT !.prereq_changed = @ \cup {prereq},
                                        !.prereq_info = (prereq :> prereq_changes) @@ @,
                                        !.recompile = @ \cup dependents],
                            hist, fsys)
                    ELSE prereq_loop(dep_tree, i + 1, acc, hist, fsys)

\* What populate_changes records for one file the glob yields (EmptyDict: nothing).
populate_changes(file, name, past_set, prereqs, cascade, hist, fsys) ==
    LET file_name == file.rel
        new_file == file_name \notin past_set
    IN IF file \in prereqs
       THEN IF file \in cascade.prereq_changed THEN cascade.prereq_info[file]
            ELSE EmptyDict
       ELSE IF file \notin cascade.recompile \/ new_file
       THEN _get_changes(file,
                         IF new_file \/ file \in cascade.recompile THEN EmptyDict
                         ELSE hist[name][file_name],
                         fsys)
       ELSE hist[name][file_name]

\* folder_changes without past_set.remove(file_name): every stored path is left
\* in the working set.
folder_changes_no_remove(name, ext, prereqs, cascade, hist, fsys, force_recompile) ==
    LET files == glob(name, ext, fsys)
        past_set == IF force_recompile THEN {} ELSE DOMAIN hist[name]
        rec(file) == populate_changes(file, name, past_set, prereqs, cascade, hist, fsys)
        changed == {file \in files : rec(file) # EmptyDict}
    IN [mod |-> [n \in {file.rel : file \in changed} |->
                    rec(WinPath([folder |-> name, rel |-> n]))],
        del |-> past_set]

\* folder_changes returning an empty working set: no deletion is reported.
folder_changes_no_deleted(name, ext, prereqs, cascade, hist, fsys, force_recompile) ==
    LET files == glob(name, ext, fsys)
        past_set == IF force_recompile THEN {} ELSE DOMAIN hist[name]
        rec(file) == populate_changes(file, name, past_set, prereqs, cascade, hist, fsys)
        changed == {file \in files : rec(file) # EmptyDict}
    IN [mod |-> [n \in {file.rel : file \in changed} |->
                    rec(WinPath([folder |-> name, rel |-> n]))],
        del |-> {}]

folder_changes(name, ext, prereqs, cascade, hist, fsys, force_recompile) ==
    LET files == glob(name, ext, fsys)
        past_set == IF force_recompile THEN {} ELSE DOMAIN hist[name]
        rec(file) == populate_changes(file, name, past_set, prereqs, cascade, hist, fsys)
        changed == {file \in files : rec(file) # EmptyDict}
    IN [mod |-> [n \in {file.rel : file \in changed} |->
                    rec(WinPath([folder |-> name, rel |-> n]))],
        del |-> past_set \ {file.rel : file \in files}]

NoChanges == [n \in Folders |-> [mod |-> NoSection, del |-> {}]]

\* [raised |-> TRUE] when the call ends in a KeyError, the change sets otherwise.
get_changes(hist, m, fsys, force_recompile) ==
    IF ~m.has_deps THEN [raised |-> TRUE, all |-> NoChanges]
    ELSE LET dep_tree == build_dep_tree(m, fsys)
             prereqs == {dep_tree[k].prereq : k \in 1..Len(dep_tree)}
             cascade == prereq_loop(dep_tree, 1, NoCascade, hist, fsys)
         IN IF cascade.raised THEN [raised |-> TRUE, all |-> NoChanges]
            ELSE [raised |-> FALSE,
                  all |-> [n \in Folders |->
                             folder_changes(n, FolderExt(n), prereqs, cascade,
                                            hist, fsys, force_recompile)]]

\* ---------------------------------------------------------------- reconciliation
\* The order in which generate, and diff, hand the folders to process_folder_changes.
GenerateOrder == <<"templates", "assets", "posts", "data">>

ReconcileOrder == IF cmd = "diff" THEN ScanOrder ELSE GenerateOrder

\* send_history passing the section whatever the command.
send_history_always == TRUE

\* send_history: generate passes history[x] when incremental, None otherwise;
\* diff passes nothing.
send_history == cmd = "generate"

\* "if history:" is true of a section that is passed and is not empty.
writes_history(name) == send_history /\ DOMAIN history[name] # {}

handled(name, ops) ==
    {events[k].name : k \in {j \in 1..Len(events) :
                                events[j].folder = name /\ events[j].op \in ops}}

pending_mod(name) == DOMAIN changes[name].mod \ handled(name, {"mod_handler", "mod_raise"})

pending_del(name) == changes[name].del \ handled(name, {"del_handler", "del_raise"})

has_pending(name) == pending_mod(name) # {} \/ pending_del(name) # {}

\* The folder process_folder_changes is working on.
current_folder ==
    ReconcileOrder[CHOOSE i \in 1..Len(ReconcileOrder) :
                      /\ has_pending(ReconcileOrder[i])
                      /\ \A j \in 1..(i - 1) : ~has_pending(ReconcileOrder[j])]

reconciled == \A n \in Folders : ~has_pending(n)

\* data_handler only prints and the handlers of diff only append to a list;
\* the handlers that render, copy and remove files can raise.
may_raise(name) == cmd # "diff" /\ name # "data"

event(op, name, file_name) == [op |-> op, folder |-> name, name |-> file_name]

\* history[name] = metadata
set_entry(section, file_name, metadata) ==
    [n \in DOMAIN section \cup {file_name} |->
        IF n = file_name THEN metadata ELSE section[n]]

\* pop_entry without the pop.
pop_entry_kept(section, file_name) == section

\* history.pop(deleted_file)
pop_entry(section, file_name) == [n \in DOMAIN section \ {file_name} |-> section[n]]

\* One turn of the first loop of process_folder_changes.
process_modified(name, file_name, handler_op) ==
    IF writes_history(name)
    THEN /\ history' = [history EXCEPT
                          ![name] = set_entry(@, file_name, changes[name].mod[file_name])]
         /\ events' = events \o <<event("set", name, file_name),
                                  event(handler_op, name, file_name)>>
    ELSE /\ history' = history
         /\ events' = Append(events, event(handler_op, name, file_name))

\* One turn of the second loop of process_folder_changes.
process_deleted(name, file_name, handler_op) ==
    IF writes_history(name)
    THEN /\ history' = [history EXCEPT ![name] = pop_entry(@, file_name)]
         /\ events' = events \o <<event("pop", name, file_name),
                                  event(handler_op, name, file_name)>>
    ELSE /\ history' = history
         /\ events' = Append(events, event(handler_op, name, file_name))

all_empty(all) == \A n \in Folders : DOMAIN all[n].mod = {} /\ all[n].del = {}

\* ---------------------------------------------------------------- actions
\* The empty string, and a path in the slot: the components of the relative
\* path without extension, the extension, and the number of the event.
EmptyString == [parts |-> << >>, ext |-> "", id |-> 0]

\* No development server is running.
WatchIdle ==
    /\ modified = EmptyString
    /\ w_pc = "idle"
    /\ w_split = EmptyString
    /\ p_pc = "idle"
    /\ response = EmptyString
    /\ n_events = 0
    /\ returned = {}
    /\ erased = {}
    /\ cleared_at = 0

\* create is not running.
CreateIdle ==
    /\ dirs = {}
    /\ dirs_before = {}
    /\ c_pc = "idle"
    /\ c_i = 1
    /\ c_j = 1
    /\ written = {}
    /\ exit_code = -1

\* No generate or diff is running, in an empty project.
CoreIdle ==
    /\ fs = [f \in Files |-> NoFile]
    /\ disk = EmptyHistory
    /\ meta = NoDeps
    /\ cmd = "none"
    /\ pc = "idle"
    /\ history = EmptyHistory
    /\ changes = NoChanges
    /\ events = << >>

side_vars == <<watch_vars, create_vars>>

Init ==
    /\ WatchIdle
    /\ CreateIdle
    /\ fs \in [Files -> FileStates]
    /\ disk \in Stores
    /\ meta \in MetaChoices
    /\ cmd = "none"
    /\ pc = "idle"
    /\ history = EmptyHistory
    /\ changes = NoChanges
    /\ events = << >>

\* The user writes, touches or adds a source file between two commands.
WriteFile(f, m, c) ==
    /\ pc = "idle"
    /\ fs[f] # [exists |-> TRUE, mod_date |-> m, content |-> c]
    /\ fs' = [fs EXCEPT ![f] = [exists |-> TRUE, mod_date |-> m, content |-> c]]
    /\ UNCHANGED <<disk, meta, cmd, pc, history, changes, events>>
    /\ UNCHANGED side_vars

\* The user removes a source file between two commands.
RemoveFile(f) ==
    /\ pc = "idle"
    /\ fs[f].exists
    /\ fs' = [fs EXCEPT ![f] = NoFile]
    /\ UNCHANGED <<disk, meta, cmd, pc, history, changes, events>>
    /\ UNCHANGED side_vars

\* generate, up to the return on "No changes!".
Generate(incremental) ==
    /\ pc = "idle"
    /\ LET got == get_changes(disk, meta, fs, ~incremental)
       IN /\ changes' = got.all
          /\ pc' = IF got.raised THEN "failed"
                   ELSE IF incremental /\ all_empty(got.all) THEN "nochanges"
                   ELSE "reconcile"
    /\ cmd' = IF incremental THEN "generate" ELSE "generate_full"
    /\ history' = disk
    /\ UNCHANGED <<fs, disk, meta, events>>
    /\ UNCHANGED side_vars

\* diff, up to the call of get_changes.
Diff ==
    /\ pc = "idle"
    /\ LET got == get_changes(disk, meta, fs, FALSE)
       IN /\ changes' = got.all
          /\ pc' = IF got.raised THEN "failed" ELSE "reconcile"
    /\ cmd' = "diff"
    /\ history' = disk
    /\ UNCHANGED <<fs, disk, meta, events>>
    /\ UNCHANGED side_vars

ReconcileModified ==
    /\ pc = "reconcile"
    /\ ~reconciled
    /\ \E file_name \in pending_mod(current_folder) :
          process_modified(current_folder, file_name, "mod_handler")
    /\ UNCHANGED <<fs, disk, meta, cmd, pc, changes>>
    /\ UNCHANGED side_vars

ModifiedHandlerRaises ==
    /\ pc = "reconcile"
    /\ ~reconciled
    /\ may_raise(current_folder)
    /\ \E file_name \in pending_mod(current_folder) :
          process_modified(current_folder, file_name, "mod_raise")
    /\ pc' = "failed"
    /\ UNCHANGED <<fs, disk, meta, cmd, changes>>
    /\ UNCHANGED side_vars

ReconcileDeleted ==
    /\ pc = "reconcile"
    /\ ~reconciled
    /\ pending_mod(current_folder) = {}
    /\ \E file_name \in pending_del(current_folder) :
          process_deleted(current_folder, file_name, "del_handler")
    /\ UNCHANGED <<fs, disk, meta, cmd, pc, changes>>
    /\ UNCHANGED side_vars

DeletedHandlerRaises ==
    /\ pc = "reconcile"
    /\ ~reconciled
    /\ may_raise(current_folder)
    /\ pending_mod(current_folder) = {}
    /\ \E file_name \in pending_del(current_folder) :
          process_deleted(current_folder, file_name, "del_raise")
    /\ pc' = "failed"
    /\ UNCHANGED <<fs, disk, meta, cmd, changes>>
    /\ UNCHANGED side_vars

\* json.dump(history, f) after each call of process_folder_changes as well.
Persist_each_folder ==
    /\ pc = "reconcile"
    /\ cmd \in {"generate", "generate_full"}
    /\ IF reconciled THEN TRUE
       ELSE /\ pending_mod(current_folder) = DOMAIN changes[current_folder].mod
            /\ pending_del(current_folder) = changes[current_folder].del
    /\ disk' = history
    /\ pc' = IF reconciled THEN "done" ELSE pc
    /\ UNCHANGED <<fs, meta, cmd, history, changes, events>>
    /\ UNCHANGED side_vars

\* json.dump(history, f) at the end of generate.
Persist ==
    /\ pc = "reconcile"
    /\ reconciled
    /\ cmd \in {"generate", "generate_full"}
    /\ disk' = history
    /\ pc' = "done"
    /\ UNCHANGED <<fs, meta, cmd, history, changes, events>>
    /\ UNCHANGED side_vars

\* diff prints the two lists and returns.
DiffReport ==
    /\ pc = "reconcile"
    /\ reconciled
    /\ cmd = "diff"
    /\ pc' = "done"
    /\ UNCHANGED <<fs, disk, meta, cmd, history, changes, events>>
    /\ UNCHANGED side_vars

\* The process ends; the next command starts from the files on disk.
Exit ==
    /\ pc \in {"done", "nochanges", "failed"}
    /\ pc' = "idle"
    /\ cmd' = "none"
    /\ history' = EmptyHistory
    /\ changes' = NoChanges
    /\ events' = << >>
    /\ UNCHANGED <<fs, disk, meta>>
    /\ UNCHANGED side_vars

Next ==
    \/ \E f \in Files, m \in 1..MaxMTime, c \in Contents : WriteFile(f, m, c)
    \/ \E f \in Files : RemoveFile(f)
    \/ \E incremental \in BOOLEAN : Generate(incremental)
    \/ Diff
    \/ ReconcileModified
    \/ ModifiedHandlerRaises
    \/ ReconcileDeleted
    \/ DeletedHandlerRaises
    \/ Persist
    \/ DiffReport
    \/ Exit

Spec == Init /\ [][Next]_vars

TypeOK ==
    /\ fs \in [Files -> FileStates]
    /\ disk \in Stores
    /\ history \in Stores
    /\ meta \in MetaChoices
    /\ cmd \in {"none", "generate", "generate_full", "diff"}
    /\ pc \in {"idle", "reconcile", "done", "nochanges", "failed"}

\* ---------------------------------------------------------------- the development server
\* The watcher is given at most MaxWatchEvents events.
MaxWatchEvents == 2

\* The files whose modification the observer reports.
WatchedFiles ==
    {[folder |-> "templates", stem |-> "base", ext |-> ".html"],
     [folder |-> "posts", stem |-> "a", ext |-> ".md"],
     [folder |-> "assets", stem |-> "s", ext |-> ".css"]}

\* os.path.relpath(event.src_path, start_path): relative to templates or assets
\* for a file under one of them, to BASE_DIR otherwise.
relpath_parts(ev) ==
    IF ev.folder \in {"templates", "assets"} THEN <<ev.stem>> ELSE <<ev.folder, ev.stem>>

\* on_modified up to line 530: the slot gets the relative path, extension included.
OnModified(ev) ==
    /\ w_pc = "idle"
    /\ n_events < MaxWatchEvents
    /\ n_events' = n_events + 1
    /\ modified' = [parts |-> relpath_parts(ev), ext |-> ev.ext, id |-> n_events + 1]
    /\ w_pc' = "recorded"
    /\ UNCHANGED <<w_split, p_pc, response, returned, erased, cleared_at>>
    /\ UNCHANGED <<core_vars, create_vars>>

\* Line 531: os.path.splitext reads the slot back.
SplitExt ==
    /\ w_pc = "recorded"
    /\ w_split' = modified
    /\ w_pc' = "split"
    /\ UNCHANGED <<modified, p_pc, response, n_events, returned, erased, cleared_at>>
    /\ UNCHANGED <<core_vars, create_vars>>

\* Lines 532-533: the slot gets modified_no_ext when ext is .html or .md.
StripExt ==
    /\ w_pc = "split"
    /\ modified' = IF w_split.ext \in {".html", ".md"}
                   THEN [w_split EXCEPT !.ext = ""]
                   ELSE modified
    /\ w_split' = EmptyString
    /\ w_pc' = "idle"
    /\ UNCHANGED <<p_pc, response, n_events, returned, erased, cleared_at>>
    /\ UNCHANGED <<core_vars, create_vars>>

\* do_POST, line 513: the answer carries the slot.
PollRespond ==
    /\ p_pc = "idle"
    /\ response' = modified
    /\ returned' = returned \cup ({modified.id} \ {0})
    /\ p_pc' = "responded"
    /\ UNCHANGED <<modified, w_pc, w_split, n_events, erased, cleared_at>>
    /\ UNCHANGED <<core_vars, create_vars>>

\* do_POST, line 514: "if event_handler.modified".
PollCheck ==
    /\ p_pc = "responded"
    /\ p_pc' = IF modified # EmptyString THEN "checked" ELSE "idle"
    /\ UNCHANGED <<modified, w_pc, w_split, response, n_events, returned, erased,
                   cleared_at>>
    /\ UNCHANGED <<core_vars, create_vars>>

\* do_POST, line 515: the slot is cleared.
PollClear ==
    /\ p_pc = "checked"
    /\ modified' = EmptyString
    /\ erased' = erased \cup ({modified.id} \ {0})
    /\ cleared_at' = n_events
    /\ p_pc' = "idle"
    /\ UNCHANGED <<w_pc, w_split, response, n_events, returned>>
    /\ UNCHANGED <<core_vars, create_vars>>

WatchInit == CoreIdle /\ CreateIdle /\ WatchIdle

WatchNext ==
    \/ \E ev \in WatchedFiles : OnModified(ev)
    \/ SplitExt
    \/ StripExt
    \/ PollRespond
    \/ PollCheck
    \/ PollClear

\* The observer thread and the server thread of run, interleaved.
WatchSpec == WatchInit /\ [][WatchNext]_vars

\* ---------------------------------------------------------------- create
\* FOLDERS.values(), in the order of the dict literal.
FolderList == <<"templates", "posts", "assets", "site", "data">>

ScaffoldFolders == {FolderList[i] : i \in 1..Len(FolderList)}

\* The undo loop never leaves at "folder == f": it removes every folder.
undo_done_all == c_j > Len(FolderList)

\* "if folder == f: break" of the undo loop.
undo_done == FolderList[c_j] = FolderList[c_i]

\* main dispatches to create; dirs_before remembers the folders found.
CreateStart ==
    /\ c_pc = "idle"
    /\ c_pc' = "mkdir"
    /\ c_i' = 1
    /\ dirs_before' = dirs
    /\ UNCHANGED <<dirs, c_j, written, exit_code>>
    /\ UNCHANGED <<core_vars, watch_vars>>

\* os.mkdir(folder) succeeds.
Mkdir ==
    /\ c_pc = "mkdir"
    /\ c_i <= Len(FolderList)
    /\ FolderList[c_i] \notin dirs
    /\ dirs' = dirs \cup {FolderList[c_i]}
    /\ c_i' = c_i + 1
    /\ UNCHANGED <<dirs_before, c_pc, c_j, written, exit_code>>
    /\ UNCHANGED <<core_vars, watch_vars>>

\* os.mkdir(folder) raises FileExistsError: the undo loop starts.
MkdirExists ==
    /\ c_pc = "mkdir"
    /\ c_i <= Len(FolderList)
    /\ FolderList[c_i] \in dirs
    /\ c_pc' = "undo"
    /\ c_j' = 1
    /\ UNCHANGED <<dirs, dirs_before, c_i, written, exit_code>>
    /\ UNCHANGED <<core_vars, watch_vars>>

\* os.rmdir(f) of the undo loop.
Rmdir ==
    /\ c_pc = "undo"
    /\ ~undo_done
    /\ dirs' = dirs \ {FolderList[c_j]}
    /\ c_j' = c_j + 1
    /\ UNCHANGED <<dirs_before, c_pc, c_i, written, exit_code>>
    /\ UNCHANGED <<core_vars, watch_vars>>

\* sys.exit(1) after the undo loop.
ExitFail ==
    /\ c_pc = "undo"
    /\ undo_done
    /\ c_pc' = "exited"
    /\ exit_code' = 1
    /\ UNCHANGED <<dirs, dirs_before, c_i, c_j, written>>
    /\ UNCHANGED <<core_vars, watch_vars>>

\* Every mkdir succeeded: meta.json and history.json are written.
WriteFiles ==
    /\ c_pc = "mkdir"
    /\ c_i > Len(FolderList)
    /\ written' = {"meta.json", "history.json"}
    /\ c_pc' = "exited"
    /\ exit_code' = 0
    /\ UNCHANGED <<dirs, dirs_before, c_i, c_j>>
    /\ UNCHANGED <<core_vars, watch_vars>>

CreateInit ==
    /\ CoreIdle
    /\ WatchIdle
    /\ dirs \in SUBSET ScaffoldFolders
    /\ dirs_before = {}
    /\ c_pc = "idle"
    /\ c_i = 1
    /\ c_j = 1
    /\ written = {}
    /\ exit_code = -1

CreateNext ==
    \/ CreateStart
    \/ Mkdir
    \/ MkdirExists
    \/ Rmdir
    \/ ExitFail
    \/ WriteFiles

\* One invocation of create in a directory holding any of the five folders.
CreateSpec == CreateInit /\ [][CreateNext]_vars

\* ---------------------------------------------------------------- claims
\* get_changes has just ended for the running command: it returned (the run goes
\* on to reconcile, or generate returns on "No changes!") or it raised.
scanned == cmd # "none" /\ events = << >> /\ pc \in {"reconcile", "nochanges", "failed"}

scan_returned == scanned /\ pc # "failed"

\* The fingerprint of a file as it is on disk now.
current_fingerprint(f) == [mod_date |-> fs[f].mod_date, hash |-> md5(fs[f].content)]

\* The declarations of meta.json as (pattern, prerequisite file) pairs.
Declared ==
    UNION {{[pattern |-> meta.deps[i].pattern, prereq |-> FileOf(meta.deps[i].prereq[j])] :
              j \in 1..Len(meta.deps[i].prereq)} : i \in 1..Len(meta.deps)}

\* Every existing file that matches the pattern is in its folder's modified map.
dependents_modified(pattern) ==
    \A file \in get_files(pattern, fs) : file.rel \in DOMAIN changes[pattern.name].mod

handler_calls(name, ops) ==
    {k \in 1..Len(events) : events[k].folder = name /\ events[k].op \in ops}

\* C1. Idempotence across runs: once an incremental generate run has completed
\* and persisted, a get_changes over the unchanged files that returns, returns an
\* empty modified map and an empty deleted set for every folder.
C1_IdempotenceAcrossRuns ==
    (pc = "done" /\ cmd = "generate") =>
        LET second == get_changes(disk, meta, fs, FALSE)
        IN second.raised \/ all_empty(second.all)

\* C2. Cascade propagation: when get_changes returns and a declared prerequisite
\* that has a store entry has changed (its mtime is newer than the stored one
\* and its digest differs from the stored one), every existing file matching the
\* pattern that depends on it is in the modified map of its own folder.
C2_CascadePropagation ==
    scan_returned =>
        \A d \in Declared :
            (/\ fs[d.prereq].exists
             /\ d.prereq.rel \in DOMAIN disk[d.prereq.folder]
             /\ disk[d.prereq.folder][d.prereq.rel].mod_date < fs[d.prereq].mod_date
             /\ disk[d.prereq.folder][d.prereq.rel].hash # md5(fs[d.prereq].content))
            => dependents_modified(d.pattern)

\* C3. Missing prerequisite: when a declared prerequisite does not exist, with or
\* without a store entry, get_changes does not raise and every existing file
\* matching a pattern that depends on it is reported as modified.
C3_MissingPrerequisiteCascades ==
    scanned =>
        \A d \in Declared :
            ~fs[d.prereq].exists => (pc # "failed" /\ dependents_modified(d.pattern))

\* C4. New-file detection: for every existing file without a store entry, named
\* in a dependency declaration or not, when every other declared prerequisite has
\* a store entry, get_changes returns one modified entry for the file, carrying
\* its current mtime and the digest of its current content, and does not list it
\* as deleted.
C4_NewFileDetection ==
    (scanned /\ meta.has_deps) =>
        \A f \in Files :
            (/\ fs[f].exists
             /\ f.rel \notin DOMAIN disk[f.folder]
             /\ \A d \in Declared :
                   d.prereq # f => d.prereq.rel \in DOMAIN disk[d.prereq.folder]) =>
                /\ pc # "failed"
                /\ f.rel \in DOMAIN changes[f.folder].mod
                /\ changes[f.folder].mod[f.rel] = current_fingerprint(f)
                /\ f.rel \notin changes[f.folder].del

\* C5. Deletion detection: an incremental get_changes that returns lists in each
\* folder's deleted set exactly the stored paths whose file no longer exists, and
\* none of them as modified; once generate has persisted, none of them is in the
\* store.
C5_DeletionDetection ==
    /\ (scan_returned /\ cmd \in {"generate", "diff"}) =>
          \A n \in Folders :
              /\ changes[n].del =
                    {r \in DOMAIN disk[n] : ~fs[[folder |-> n, rel |-> r]].exists}
              /\ changes[n].del \cap DOMAIN changes[n].mod = {}
    /\ (pc = "done" /\ cmd = "generate") =>
          \A n \in Folders : changes[n].del \cap DOMAIN disk[n] = {}

\* A generate run persisted after it found a stored path whose file is gone.
C5_Witness ==
    /\ pc = "done" /\ cmd = "generate"
    /\ \E n \in Folders : changes[n].del # {}

\* C6. Handler contract: in every folder the modified paths and the deleted paths
\* of a change set are disjoint, and in one run each handler is invoked at most
\* once per path and no path is passed to both handlers.
C6_HandlerContract ==
    \A n \in Folders :
        /\ DOMAIN changes[n].mod \cap changes[n].del = {}
        /\ \A k1, k2 \in handler_calls(n, {"mod_handler", "mod_raise",
                                          "del_handler", "del_raise"}) :
              events[k1].name = events[k2].name => k1 = k2

\* A run called the modified handler for one path and the deleted handler for
\* another.
C6_Witness ==
    /\ pc = "done"
    /\ \E n \in Folders : handler_calls(n, {"mod_handler"}) # {}
    /\ \E n \in Folders : handler_calls(n, {"del_handler"}) # {}

\* C7. Forced-recompile mode: get_changes with force_recompile=True returns, for
\* every folder, a modified entry for each of the files matching the folder's
\* filter and an empty deleted set.
C7_ForcedRecompile ==
    (scan_returned /\ cmd = "generate_full") =>
        \A n \in Folders :
            /\ DOMAIN changes[n].mod = {file.rel : file \in glob(n, FolderExt(n), fs)}
            /\ changes[n].del = {}

\* C8. Interrupted run: history.json is written only by the step that ends a
\* generate run, after every modified and deleted path of the four folders has
\* been handled; when a handler raises, history.json is left as it was and
\* get_changes over it and the same files gives the change set the aborted run
\* computed.
C8_InterruptedRunLeavesStore ==
    [][ /\ (disk' # disk \/ (pc' = "done" /\ cmd # "diff")) =>
              /\ pc = "reconcile" /\ pc' = "done"
              /\ \A n \in Folders : ~has_pending(n)
        /\ (pc' = "failed" /\ pc = "reconcile") =>
              /\ disk' = disk
              /\ get_changes(disk', meta', fs', cmd' = "generate_full") =
                    [raised |-> FALSE, all |-> changes'] ]_vars

\* A handler raised after the run had already changed the history in memory.
C8_Witness ==
    /\ pc = "failed"
    /\ events # << >>
    /\ history # disk

\* C9. Store invariant: right after an incremental generate run persists, every
\* key of every section of the store is the relative path of a file that exists
\* in that folder.
C9_StoreKeysExist ==
    (pc = "done" /\ cmd = "generate") =>
        \A n \in Folders : \A r \in DOMAIN disk[n] : fs[[folder |-> n, rel |-> r]].exists

\* An incremental run persisted a store that still has entries, after scanning a
\* store with a key whose file was gone.
C9_Witness ==
    /\ pc = "done" /\ cmd = "generate"
    /\ \E n \in Folders : changes[n].del # {}
    /\ \E n \in Folders : DOMAIN disk[n] # {}

\* C10. Dry run: during diff neither history.json nor the history in memory
\* changes, and when diff returns the modified handler has been called for every
\* modified path and the deleted handler for every deleted path.
C10_DiffLeavesStore ==
    [][ cmd' = "diff" =>
          /\ disk' = disk
          /\ history' = disk
          /\ pc' = "done" =>
                \A n \in Folders :
                    /\ handled(n, {"mod_handler"})' = DOMAIN changes'[n].mod
                    /\ handled(n, {"del_handler"})' = changes'[n].del ]_vars

\* diff returned after handling a modified path of a folder whose store section
\* has entries, and a deleted path.
C10_Witness ==
    /\ pc = "done" /\ cmd = "diff"
    /\ \E n \in Folders : DOMAIN disk[n] # {} /\ DOMAIN changes[n].mod # {}
    /\ \E n \in Folders : changes[n].del # {}

\* The files a changed prerequisite forces (recompile), for the store and the
\* files of the current state.
forced_files ==
    {FileOf(file) : file \in
        prereq_loop(build_dep_tree(meta, fs), 1, NoCascade, disk, fs).recompile}

prereq_files == {d.prereq : d \in Declared}

\* A file with a store entry that exists, is not forced and is no prerequisite.
plain_tracked(f) ==
    /\ fs[f].exists
    /\ f.rel \in DOMAIN disk[f.folder]
    /\ f \notin forced_files
    /\ f \notin prereq_files

incremental_scan_returned == scan_returned /\ cmd \in {"generate", "diff"}

\* C12. False-positive suppression: in an incremental get_changes, a tracked
\* file that is neither forced nor a declared prerequisite, whose mtime is newer
\* than the stored one but whose digest equals the stored one, is neither in the
\* modified map nor in the deleted set.
C12_FalsePositiveSuppression ==
    incremental_scan_returned =>
        \A f \in Files :
            (/\ plain_tracked(f)
             /\ disk[f.folder][f.rel].mod_date < fs[f].mod_date
             /\ disk[f.folder][f.rel].hash = md5(fs[f].content))
            => /\ f.rel \notin DOMAIN changes[f.folder].mod
               /\ f.rel \notin changes[f.folder].del

\* An incremental scan returned over a touched, otherwise unchanged file.
C12_Witness ==
    /\ incremental_scan_returned
    /\ \E f \in Files :
          /\ plain_tracked(f)
          /\ disk[f.folder][f.rel].mod_date < fs[f].mod_date
          /\ disk[f.folder][f.rel].hash = md5(fs[f].content)

\* C13. Reconcile updates the store: after an incremental generate run that found
\* changes has persisted, in every folder every modified path has its reported
\* fingerprint in the store and no deleted path is in it, and each handler call
\* comes right after the store write for its path.
C13_ReconcileUpdatesStore ==
    (pc = "done" /\ cmd = "generate") =>
        \A n \in Folders :
            /\ \A r \in DOMAIN changes[n].mod :
                  r \in DOMAIN disk[n] /\ disk[n][r] = changes[n].mod[r]
            /\ changes[n].del \cap DOMAIN disk[n] = {}
            /\ \A k \in handler_calls(n, {"mod_handler", "del_handler"}) :
                  /\ k > 1
                  /\ events[k - 1].folder = n
                  /\ events[k - 1].name = events[k].name
                  /\ events[k - 1].op =
                        (IF events[k].op = "mod_handler" THEN "set" ELSE "pop")

\* C14. Tie-break: in an incremental get_changes, a tracked file that is forced
\* by a cascade and has itself changed (newer mtime, different digest) is
\* recorded in the modified map with the fingerprint of its current content.
C14_ForcedAndChanged ==
    incremental_scan_returned =>
        \A f \in Files :
            (/\ fs[f].exists
             /\ f \in forced_files
             /\ f.rel \in DOMAIN disk[f.folder]
             /\ disk[f.folder][f.rel].mod_date < fs[f].mod_date
             /\ disk[f.folder][f.rel].hash # md5(fs[f].content))
            => /\ f.rel \in DOMAIN changes[f.folder].mod
               /\ changes[f.folder].mod[f.rel] = current_fingerprint(f)

\* C16. Two-stage classification: in an incremental get_changes, a tracked file
\* that is neither forced nor a declared prerequisite is in the modified map if
\* and only if its mtime is strictly greater than the stored one and its digest
\* differs from the stored one; the entry then carries the current mtime and
\* digest; the file is not in the deleted set.
C16_TwoStageClassification ==
    incremental_scan_returned =>
        \A f \in Files :
            plain_tracked(f) =>
                /\ f.rel \in DOMAIN changes[f.folder].mod
                      <=> /\ disk[f.folder][f.rel].mod_date < fs[f].mod_date
                          /\ disk[f.folder][f.rel].hash # md5(fs[f].content)
                /\ f.rel \in DOMAIN changes[f.folder].mod
                      => changes[f.folder].mod[f.rel] = current_fingerprint(f)
                /\ f.rel \notin changes[f.folder].del

\* An incremental scan reported a plain tracked file as modified.
C16_Witness ==
    /\ incremental_scan_returned
    /\ \E f \in Files :
          /\ plain_tracked(f)
          /\ f.rel \in DOMAIN changes[f.folder].mod
          /\ disk[f.folder][f.rel] # current_fingerprint(f)

\* The orders in which a sequence can be listed.
SeqPerms(s) ==
    {[i \in 1..Len(s) |-> s[p[i]]] :
        p \in {q \in [1..Len(s) -> 1..Len(s)] :
                 \A i, j \in 1..Len(s) : q[i] = q[j] => i = j}}

DeclOrders(decl) ==
    {[pattern |-> decl.pattern, prereq |-> q] : q \in SeqPerms(decl.prereq)}

\* meta.json with the same declarations listed in any order, the prerequisites
\* of each declaration in any order.
Reorderings(m) ==
    {[has_deps |-> m.has_deps, deps |-> d] :
        d \in UNION {{e \in [1..Len(s) -> UNION {DeclOrders(s[i]) : i \in 1..Len(s)}] :
                        \A i \in 1..Len(s) : e[i] \in DeclOrders(s[i])} :
                     s \in SeqPerms(m.deps)}}

\* C17. Declaration order: for the store and the files of the call, get_changes
\* ends the same way (same modified maps and deleted sets, or raising) for every
\* order of the declarations and of the prerequisites within each.
C17_DeclarationOrder ==
    scanned =>
        \A m \in Reorderings(meta) :
            LET other == get_changes(disk, m, fs, cmd = "generate_full")
            IN /\ other.raised = (pc = "failed")
               /\ ~other.raised => other.all = changes

\* C18. Fresh scaffold: with history.json and meta.json as create writes them and
\* no source file, diff and generate do not raise and report no modification and
\* no deletion, and history.json still holds four empty sections.
C18_FreshScaffoldScannable ==
    (/\ scanned
     /\ cmd \in {"generate", "diff"}
     /\ meta = CreatedMeta
     /\ history = EmptyHistory
     /\ \A f \in Files : ~fs[f].exists) =>
        /\ pc # "failed"
        /\ all_empty(changes)
        /\ disk = EmptyHistory

\* C11. Refresh poll: under every interleaving of on_modified and POST /refresh,
\* a poll answers with the most recent event recorded since the slot was last
\* cleared, or with the empty string when there is none, and no event is erased
\* from the slot without a poll having returned it.
C11_RefreshPoll ==
    [][/\ (p_pc = "idle" /\ p_pc' = "responded") =>
             response'.id = (IF n_events > cleared_at THEN n_events ELSE 0)
       /\ erased' \subseteq returned']_vars

\* C15. Extension stripping: under every interleaving of on_modified and
\* POST /refresh, the path a poll returns never carries the .html or .md
\* extension.
C15_ExtensionStripped == response.ext \notin {".html", ".md"}

\* C19. Failed create rolls back its own work: when create ends after finding
\* one of the five folders already present, it has exited with code 1, the
\* folders that exist are exactly those that existed before it started, and
\* neither meta.json nor history.json has been written.
C19_FailedCreateRollsBack ==
    (c_pc = "exited" /\ dirs_before # {}) =>
        /\ exit_code = 1
        /\ dirs = dirs_before
        /\ written = {}

\* A create that made at least one folder before meeting an existing one has
\* exited.
C19_Witness ==
    /\ c_pc = "exited"
    /\ exit_code = 1
    /\ c_i > 1
    /\ dirs_before # {}

====
